---- MODULE Spec2Model ----
(***************************************************************************)
(* gys-generator: the shoe file generator (generator.py, shoepair.py,      *)
(* globals.py), its entry point run.py and the batch driver jordans.py.    *)
(*                                                                         *)
(* A Python str is a sequence of one-character strings, so that the regex  *)
(* search, the substring test and the JSON text are computed character by  *)
(* character.  Other Python values are tagged records (PyStr, PyInt, ...). *)
(***************************************************************************)
EXTENDS Integers, Sequences, FiniteSets, TLC

(***************************************************************************)
(* Python values                                                           *)
(***************************************************************************)
PyNone == [t |-> "None"]
PyStr(s) == [t |-> "str", v |-> s]
PyInt(n) == [t |-> "int", v |-> n]
PyBool(b) == [t |-> "bool", v |-> b]
PyList(l) == [t |-> "list", v |-> l]
\* a dict keeps its keys in insertion order (keys) and maps each to a value (m)
PyDict(ks, f) == [t |-> "dict", keys |-> ks, m |-> f]
EmptyDict == PyDict(<<>>, <<>>)

\* d[k] = v on a dict: a new key is appended, an old key keeps its place
DictSet(d, k, v) ==
    PyDict(IF k \in DOMAIN d.m THEN d.keys ELSE Append(d.keys, k),
           [x \in (DOMAIN d.m) \cup {k} |-> IF x = k THEN v ELSE d.m[x]])

\* k in d
HasKey(d, k) == k \in DOMAIN d.m

\* the dict literal {k1: v1, ...} given as a sequence of <<key, value>> pairs
RECURSIVE DictOf(_)
DictOf(pairs) ==
    IF pairs = <<>> THEN EmptyDict
    ELSE DictSet(DictOf(SubSeq(pairs, 1, Len(pairs) - 1)),
                 pairs[Len(pairs)][1], pairs[Len(pairs)][2])

(***************************************************************************)
(* The keys and constant strings of the program                            *)
(***************************************************************************)
K_site == <<"s", "i", "t", "e">>
K_dir == <<"d", "i", "r">>
K_exclude_list == <<"e", "x", "c", "l", "u", "d", "e", "_", "l", "i", "s", "t">>
K_start == <<"s", "t", "a", "r", "t">>
K_id == <<"i", "d">>
K_name == <<"n", "a", "m", "e">>
K_img == <<"i", "m", "g">>

NULL_NAME_STRING == <<"N", "o", "N", "a", "m", "e", "F", "o", "u", "n", "d">>
NULL_IMAGE_STRING ==
    <<"N", "o", "I", "m", "a", "g", "e", "U", "R", "L", "F", "o", "u", "n", "d">>
\* the name of the record get_impressions_list falls back to
NULL_RECORD_NAME == <<"N", "U", "L", "L">>
JSON_SUFFIX == <<".", "j", "s", "o", "n">>

(***************************************************************************)
(* str(int) and int(str)                                                   *)
(***************************************************************************)
Digits == <<"0", "1", "2", "3", "4", "5", "6", "7", "8", "9">>
DigitSet == {Digits[i] : i \in 1..10}
DigitVal(c) == (CHOOSE i \in 1..10 : Digits[i] = c) - 1

RECURSIVE IntToStr(_)
IntToStr(n) ==
    IF n < 0 THEN <<"-">> \o IntToStr(-n)
    ELSE IF n < 10 THEN <<Digits[n + 1]>>
    ELSE IntToStr(n \div 10) \o <<Digits[(n % 10) + 1]>>

RECURSIVE DigitsToInt(_)
DigitsToInt(s) ==
    IF s = <<>> THEN 0
    ELSE 10 * DigitsToInt(SubSeq(s, 1, Len(s) - 1)) + DigitVal(s[Len(s)])

AllDigits(s) == s # <<>> /\ \A i \in 1..Len(s) : s[i] \in DigitSet

\* int(text): [ok, v]; not ok is the ValueError int() raises on text that is
\* no integer literal
int(text) ==
    IF AllDigits(text) THEN [ok |-> TRUE, v |-> DigitsToInt(text)]
    ELSE IF Len(text) > 1 /\ text[1] = "-" /\ AllDigits(Tail(text))
    THEN [ok |-> TRUE, v |-> 0 - DigitsToInt(Tail(text))]
    ELSE [ok |-> FALSE, v |-> 0]

(***************************************************************************)
(* json.dumps: the text of a value, with the default separators            *)
(***************************************************************************)
\* a backslash before each quote and backslash of s
EscapeStr(s) ==
    LET special(i) == Cardinality({j \in 1..i : s[j] \in {"\"", "\\"}})
    IN  IF special(Len(s)) = 0 THEN s
        ELSE
        [k \in 1..(Len(s) + special(Len(s))) |->
            IF \E i \in 1..Len(s) : i + special(i) = k
            THEN s[CHOOSE i \in 1..Len(s) : i + special(i) = k]
            ELSE "\\"]

RECURSIVE json_dumps(_)
RECURSIVE DumpItems(_)
RECURSIVE DumpMembers(_, _)
json_dumps(val) ==
    CASE val.t = "str" -> <<"\"">> \o EscapeStr(val.v) \o <<"\"">>
      [] val.t = "int" -> IntToStr(val.v)
      [] val.t = "list" -> <<"[">> \o DumpItems(val.v) \o <<"]">>
      [] val.t = "dict" -> <<"{">> \o DumpMembers(val.keys, val.m) \o <<"}">>

DumpItems(l) ==
    IF l = <<>> THEN <<>>
    ELSE json_dumps(Head(l))
         \o (IF Len(l) > 1 THEN <<",", " ">> \o DumpItems(Tail(l)) ELSE <<>>)

DumpMembers(ks, f) ==
    IF ks = <<>> THEN <<>>
    ELSE json_dumps(PyStr(Head(ks))) \o <<":", " ">> \o json_dumps(f[Head(ks)])
         \o (IF Len(ks) > 1 THEN <<",", " ">> \o DumpMembers(Tail(ks), f) ELSE <<>>)

(***************************************************************************)
(* json.loads: a recursive descent over the text.  A parse step returns    *)
(* [ok, v, pos]: pos is the first character not consumed.  Not ok is the   *)
(* json.JSONDecodeError.                                                   *)
(***************************************************************************)
ParseFail == [ok |-> FALSE, v |-> PyNone, pos |-> 0]
Parsed(val, p) == [ok |-> TRUE, v |-> val, pos |-> p]

RECURSIVE SkipWs(_, _)
SkipWs(text, i) ==
    IF i <= Len(text) /\ text[i] = " " THEN SkipWs(text, i + 1) ELSE i

\* whether the character at i is escaped: an odd number of backslashes
\* stands right before it (from is where the string literal's text starts)
IsEscaped(text, from, i) ==
    LET stop == CHOOSE j \in (from - 1)..(i - 1) :
                    /\ j = from - 1 \/ text[j] # "\\"
                    /\ \A k \in (j + 1)..(i - 1) : text[k] = "\\"
    IN  i > from /\ text[i - 1] = "\\" /\ (i - 1 - stop) % 2 = 1

\* the positions of the quotes q from from on that are not escaped
Closing(text, from, q) ==
    {i \in from..Len(text) : text[i] = q /\ ~IsEscaped(text, from, i)}

\* the backslashes in from..to-1 that are not escaped themselves
Escapes(text, from, to) ==
    {i \in from..(to - 1) : text[i] = "\\" /\ ~IsEscaped(text, from, i)}

\* the text from..to-1 without its escaping backslashes, each of which must
\* stand before a quote or a backslash
Unescaped(text, from, to, escapes) ==
    LET kept == (from..(to - 1)) \ escapes
        nth(k) == CHOOSE i \in kept : Cardinality({j \in kept : j <= i}) = k
    IN  IF escapes = {} THEN Parsed(PyStr(SubSeq(text, from, to - 1)), to + 1)
        ELSE IF \E i \in escapes : text[i + 1] \notin {"\"", "'", "\\"}
        THEN ParseFail
        ELSE Parsed(PyStr([k \in 1..Cardinality(kept) |-> text[nth(k)]]), to + 1)

CharsUpTo(text, from, to) == Unescaped(text, from, to, Escapes(text, from, to))

CharsUpToFirst(text, from, closing) ==
    IF closing = {} THEN ParseFail
    ELSE CharsUpTo(text, from, CHOOSE i \in closing : \A j \in closing : i <= j)

\* the string literal whose text starts at from (after the opening quote q):
\* it ends at the first q that is not escaped; a backslash that is not
\* escaped itself escapes the quote or backslash after it and is dropped
ParseChars(text, from, q) == CharsUpToFirst(text, from, Closing(text, from, q))

RECURSIVE NumberEnd(_, _)
NumberEnd(text, i) ==
    IF i <= Len(text) /\ text[i] \in DigitSet THEN NumberEnd(text, i + 1) ELSE i

ParseNumber(text, i) ==
    LET from == IF text[i] = "-" THEN i + 1 ELSE i
        to == NumberEnd(text, from)
    IN  IF to = from THEN ParseFail
        \* no leading zeros
        ELSE IF to - from > 1 /\ text[from] = "0" THEN ParseFail
        ELSE Parsed(PyInt(int(SubSeq(text, i, to - 1)).v), to)

\* quotes: the characters that open a string literal ({"\""} in JSON,
\* {"\"", "'"} in a Python literal)
RECURSIVE ParseValue(_, _, _)
RECURSIVE ParseItems(_, _, _, _)
RECURSIVE ParseMembers(_, _, _, _)

\* an array whose text after "[" and white space starts at j
ParseArray(text, j, quotes) ==
    IF j <= Len(text) /\ text[j] = "]" THEN Parsed(PyList(<<>>), j + 1)
    ELSE ParseItems(text, j, <<>>, quotes)

\* an object whose text after "{" and white space starts at j
ParseObject(text, j, quotes) ==
    IF j <= Len(text) /\ text[j] = "}" THEN Parsed(EmptyDict, j + 1)
    ELSE ParseMembers(text, j, EmptyDict, quotes)

\* the value that starts at i, which is no white space
ValueAt(text, i, quotes) ==
    IF i > Len(text) THEN ParseFail
    ELSE IF text[i] \in quotes THEN ParseChars(text, i + 1, text[i])
    ELSE IF text[i] = "-" \/ text[i] \in DigitSet THEN ParseNumber(text, i)
    ELSE IF text[i] = "[" THEN ParseArray(text, SkipWs(text, i + 1), quotes)
    ELSE IF text[i] = "{" THEN ParseObject(text, SkipWs(text, i + 1), quotes)
    ELSE ParseFail

ParseValue(text, i0, quotes) == ValueAt(text, SkipWs(text, i0), quotes)

\* after the items acc of an array, at j: its "]" or a "," and more items
ItemsNext(text, j, acc, quotes) ==
    IF j > Len(text) THEN ParseFail
    ELSE IF text[j] = "]" THEN Parsed(PyList(acc), j + 1)
    ELSE IF text[j] = "," THEN ParseItems(text, j + 1, acc, quotes)
    ELSE ParseFail

ItemsAfter(text, item, acc, quotes) ==
    IF ~item.ok THEN ParseFail
    ELSE ItemsNext(text, SkipWs(text, item.pos), Append(acc, item.v), quotes)

\* the items of an array from i, up to and with its "]"
ParseItems(text, i, acc, quotes) ==
    ItemsAfter(text, ParseValue(text, i, quotes), acc, quotes)

\* after the members d of an object, at j: its "}" or a "," and more members
MembersNext(text, j, d, quotes) ==
    IF j > Len(text) THEN ParseFail
    ELSE IF text[j] = "}" THEN Parsed(d, j + 1)
    ELSE IF text[j] = "," THEN ParseMembers(text, j + 1, d, quotes)
    ELSE ParseFail

\* a repeated key keeps its last value
MemberSet(text, k, val, acc, quotes) ==
    IF ~val.ok THEN ParseFail
    ELSE MembersNext(text, SkipWs(text, val.pos), DictSet(acc, k, val.v), quotes)

MemberValue(text, k, c, acc, quotes) ==
    IF c > Len(text) \/ text[c] # ":" THEN ParseFail
    ELSE MemberSet(text, k, ParseValue(text, c + 1, quotes), acc, quotes)

MemberColon(text, key, acc, quotes) ==
    IF ~key.ok THEN ParseFail
    ELSE MemberValue(text, key.v.v, SkipWs(text, key.pos), acc, quotes)

MemberKey(text, i, acc, quotes) ==
    IF i > Len(text) \/ text[i] \notin quotes THEN ParseFail
    ELSE MemberColon(text, ParseChars(text, i + 1, text[i]), acc, quotes)

\* the members of an object from i0, up to and with its "}"
ParseMembers(text, i0, acc, quotes) == MemberKey(text, SkipWs(text, i0), acc, quotes)

\* the value parsed must be followed by white space only
WholeText(text, r) ==
    IF r.ok /\ SkipWs(text, r.pos) = Len(text) + 1
    THEN [ok |-> TRUE, v |-> r.v]
    ELSE [ok |-> FALSE, v |-> PyNone]

ParseAll(text, quotes) == WholeText(text, ParseValue(text, 1, quotes))

\* json.loads(text): [ok, v]; not ok is the JSONDecodeError
json_loads(text) == ParseAll(text, {"\""})

\* ast.literal_eval(text) on the literals modelled (strings in either quote,
\* integers, lists, dicts): [ok, v]; not ok is the SyntaxError
ast_literal_eval(text) == ParseAll(text, {"\"", "'"})

(***************************************************************************)
(* re.search(pattern, string, re.IGNORECASE) for patterns of literal       *)
(* characters and the wildcard ".": the position of the leftmost match,    *)
(* 0 for None                                                              *)
(***************************************************************************)
Lower(c) ==
    CASE c = "A" -> "a" [] c = "B" -> "b" [] c = "L" -> "l"
      [] c = "N" -> "n" [] c = "U" -> "u" [] OTHER -> c

RECURSIVE MatchHere(_, _, _)
MatchHere(pat, str, i) ==
    IF pat = <<>> THEN TRUE
    ELSE IF i > Len(str) THEN FALSE
    ELSE IF Head(pat) = "." \/ Lower(Head(pat)) = Lower(str[i])
    THEN MatchHere(Tail(pat), str, i + 1)
    ELSE FALSE

RECURSIVE SearchFrom(_, _, _)
SearchFrom(pat, str, i) ==
    IF i > Len(str) + 1 THEN 0
    ELSE IF MatchHere(pat, str, i) THEN i
    ELSE SearchFrom(pat, str, i + 1)

re_search(pat, str) == SearchFrom(pat, str, 1)

\* sub in str (case-sensitive substring test)
Contains(sub, str) ==
    \E i \in 1..(Len(str) - Len(sub) + 1) : SubSeq(str, i, i + Len(sub) - 1) = sub

(***************************************************************************)
(* globals.py                                                              *)
(***************************************************************************)
BASE_SITE == <<"h", "t", "t", "p", "s", ":", "/", "/", "w", "w", "w", ".", "f", "l", "i", "g", "h", "t", "c", "l", "u", "b", ".", "c", "o", "m">>
BASE_SEARCH_SITE == BASE_SITE \o <<"/", "c", "a", "t", "a", "l", "o", "g", "s", "e", "a", "r", "c", "h", "/", "r", "e", "s", "u", "l", "t", "/", "?", "q", "=">>

(***************************************************************************)
(* The web as the browser sees it.  A page is [links, name_sel, img_sel]:  *)
(* the href of each <a> in document order (PyNone: an <a> without href),   *)
(* the text of each element the name selector matches, and the src of      *)
(* each element the image selector matches.                                *)
(***************************************************************************)
WebPage(links, names, imgs) == [links |-> links, name_sel |-> names, img_sel |-> imgs]
BlankPage == WebPage(<<>>, <<>>, <<>>)

SearchUrl(id) == BASE_SEARCH_SITE \o id
HrefAbout == PyStr(<<"/", "a", "b", "o", "u", "t">>)
HrefItem(id) == PyStr(<<"/", "p", "-">> \o id)

\* the link to the page of another item, whose id starts with id
HrefLonger(id) == PyStr(<<"/", "p", "-">> \o id \o <<"1">>)
\* the link to a page under the item's own page
HrefBelow(id) == PyStr(<<"/", "p", "-">> \o id \o <<"/", "r">>)

\* Browser.visit(url); browser.html.  Shoe 1 has an item page with name and
\* image; shoe 2 has no item link and a search page with a name only; shoe 3
\* has an item page with an image only; shoe 4 has neither link nor match.
\* The search page of shoe 5 has an <a> without href before the item link;
\* that of shoe 6 links to item 61 before item 6; that of shoe 7 links to a
\* page under the item's page.
Browse(url) ==
    CASE url = SearchUrl(<<"1">>) -> WebPage(<<HrefAbout, HrefItem(<<"1">>)>>, <<>>, <<>>)
      [] url = HrefItem(<<"1">>).v ->
            WebPage(<<HrefAbout>>, <<<<"A", "b", " ", "1">>, <<"x">>>>, <<<<"u", "1">>>>)
      [] url = SearchUrl(<<"2">>) -> WebPage(<<HrefAbout>>, <<<<"b", "a">>>>, <<>>)
      [] url = SearchUrl(<<"3">>) -> WebPage(<<HrefItem(<<"3">>), HrefAbout>>, <<>>, <<>>)
      [] url = HrefItem(<<"3">>).v -> WebPage(<<>>, <<>>, <<<<"u", "3">>, <<"v">>>>)
      [] url = SearchUrl(<<"5">>) ->
            WebPage(<<HrefAbout, PyNone, HrefItem(<<"5">>)>>, <<>>, <<>>)
      [] url = HrefItem(<<"5">>).v -> WebPage(<<>>, <<<<"e">>>>, <<<<"u", "5">>>>)
      [] url = SearchUrl(<<"6">>) ->
            WebPage(<<HrefLonger(<<"6">>), HrefItem(<<"6">>)>>, <<<<"s">>>>, <<>>)
      [] url = HrefLonger(<<"6">>).v -> WebPage(<<>>, <<<<"f", "1">>>>, <<<<"u", "6", "1">>>>)
      [] url = HrefItem(<<"6">>).v -> WebPage(<<>>, <<<<"f">>>>, <<<<"u", "6">>>>)
      [] url = SearchUrl(<<"7">>) -> WebPage(<<HrefAbout, HrefBelow(<<"7">>)>>, <<>>, <<>>)
      [] url = HrefBelow(<<"7">>).v -> WebPage(<<>>, <<<<"g">>>>, <<<<"u", "7">>>>)
      [] OTHER -> BlankPage

(***************************************************************************)
(* shoepair.py                                                             *)
(***************************************************************************)
\* a Browser: the url it shows and whether it is still open
Session(url, open) == [url |-> url, open |-> open]

\* the loop of _search over the <a> elements: [exc, href]; href is PyNone
\* when no link holds "-" + id
RECURSIVE ScanLinks(_, _)
ScanLinks(links, id) ==
    IF links = <<>> THEN [exc |-> "", href |-> PyNone]
    ELSE IF Head(links) = PyNone THEN [exc |-> "KeyError", href |-> PyNone]
    ELSE IF Contains(<<"-">> \o id, Head(links).v) THEN [exc |-> "", href |-> Head(links)]
    ELSE ScanLinks(Tail(links), id)

\* the rest of _search once the links of the result page of url are scanned
FollowLink(url, scan) ==
    IF scan.exc # ""
    THEN [exc |-> scan.exc, sessions |-> <<Session(url, TRUE)>>, brow |-> 0]
    ELSE IF scan.href # PyNone
    THEN [exc |-> "",
          sessions |-> <<Session(url, FALSE), Session(scan.href.v, TRUE)>>,
          brow |-> 2]
    ELSE [exc |-> "", sessions |-> <<Session(url, TRUE)>>, brow |-> 1]

\* ShoePair._search(id): [exc, sessions, brow]: the browsers opened, in order,
\* and the index of the one returned
_search(id) ==
    FollowLink(BASE_SEARCH_SITE \o id, ScanLinks(Browse(BASE_SEARCH_SITE \o id).links, id))

\* ShoePair._evaluate_soup_select: the first element selected, or None
_evaluate_soup_select(elems) ==
    IF Len(elems) = 0 THEN PyNone ELSE PyStr(elems[1])

\* a slip: the name's sentinel for a missing image
_get_shoe_image_name_sentinel(page) ==
    LET elem == _evaluate_soup_select(page.img_sel)
    IN  IF elem = PyNone THEN NULL_NAME_STRING ELSE elem.v

_get_shoe_image(page) ==
    LET elem == _evaluate_soup_select(page.img_sel)
    IN  IF elem = PyNone THEN NULL_IMAGE_STRING ELSE elem.v

_get_shoe_name(page) ==
    LET sel_element == _evaluate_soup_select(page.name_sel)
    IN  IF sel_element = PyNone THEN NULL_NAME_STRING ELSE sel_element.v

\* lines 21-25 of __init__, for the page of the browser _search returned
Extract(s, page) ==
    [exc |-> "",
     name |-> _get_shoe_name(page),
     image |-> _get_shoe_image(page),
     \* brow.quit()
     sessions |-> [s.sessions EXCEPT ![s.brow].open = FALSE]]

Construct(s) ==
    IF s.exc # ""
    THEN [exc |-> s.exc, name |-> <<>>, image |-> <<>>, sessions |-> s.sessions]
    ELSE Extract(s, Browse(s.sessions[s.brow].url))

\* ShoePair(id): [exc, name, image, sessions]
ShoePair(id) == Construct(_search(id))

(***************************************************************************)
(* generator.py                                                            *)
(***************************************************************************)
\* a slip: the loop gives up after its first tag
FirstTagOnly(excludetags, name, k) ==
    IF k <= Len(excludetags) /\ re_search(excludetags[k].v, name) # 0 THEN k ELSE 0

\* a slip: the loop runs to its end and the last tag found is the one kept
LastExcludingTag(excludetags, name, k) ==
    IF \A j \in k..Len(excludetags) : re_search(excludetags[j].v, name) = 0 THEN 0
    ELSE CHOOSE j \in k..Len(excludetags) :
             /\ re_search(excludetags[j].v, name) # 0
             /\ \A i \in (j + 1)..Len(excludetags) : re_search(excludetags[i].v, name) = 0

\* the for loop of create_shoe_pair: the index of the first tag that
\* re.search finds in name, 0 when the loop ends without one
RECURSIVE FirstExcludingTag(_, _, _)
FirstExcludingTag(excludetags, name, k) ==
    IF k > Len(excludetags) THEN 0
    ELSE IF re_search(excludetags[k].v, name) # 0 THEN k
    ELSE FirstExcludingTag(excludetags, name, k + 1)

\* line 42: the ShoePair made is returned, or its exception goes on
Made(sp) == [exc |-> sp.exc, etag |-> 0, pair |-> sp]

\* lines 39-42, for etag the index of the first tag found in the name
ExcludeOrMake(idobj, etag) ==
    IF etag # 0 THEN [exc |-> "", etag |-> etag, pair |-> PyNone]
    ELSE IF ~HasKey(idobj, K_id)
    THEN [exc |-> "KeyError", etag |-> 0, pair |-> PyNone]
    ELSE Made(ShoePair(idobj.m[K_id].v))

\* create_shoe_pair(idobj, excludetags): [exc, etag, pair]; etag is the index
\* of the tag that excluded the shoe (0: not excluded), pair is None or the
\* ShoePair made
create_shoe_pair(idobj, excludetags) ==
    IF ~HasKey(idobj, K_name)
    THEN [exc |-> "KeyError", etag |-> 0, pair |-> PyNone]
    ELSE ExcludeOrMake(idobj, FirstExcludingTag(excludetags, idobj.m[K_name].v, 1))

\* create_file(dname, name, shoename, imgval): the file it writes
create_file(dname, name, shoename, imgval) ==
    [path |-> dname \o name \o JSON_SUFFIX,
     text |-> json_dumps(DictOf(<< <<K_name, PyStr(shoename)>>, <<K_img, PyStr(imgval)>> >>))]

\* a slip: the counter advances for an excluded shoe too
NextFilenumAlways(current_filenum, shoepair) == current_filenum + 1

\* current_filenum += 1 for a shoe that is not excluded
NextFilenum(current_filenum, shoepair) ==
    IF shoepair # PyNone THEN current_filenum + 1 ELSE current_filenum

\* a slip: the list is walked from its end
LoopShoeReversed(shoelist, idx) == shoelist[Len(shoelist) - idx + 1]

\* the shoe the for loop of create_all_files is at in its idx-th iteration
LoopShoe(shoelist, idx) == shoelist[idx]

\* A catalog page is [marker, tail]: whether a <script> holds
\* 'impressions': [ and the script's text after that bracket.
CatalogPage(marker, tail) == [marker |-> marker, tail |-> tail]

\* the group (.*?) of the regex: the text before the first "]", [ok, v]; not
\* ok when there is no "]" for the regex to end at
UpToBracket(tail) ==
    LET closing == {i \in 1..Len(tail) : tail[i] = "]"}
    IN  IF closing = {} THEN [ok |-> FALSE, v |-> <<>>]
        ELSE [ok |-> TRUE,
              v |-> SubSeq(tail, 1, (CHOOSE i \in closing : \A j \in closing : i <= j) - 1)]

\* line 94: what json.loads gave, or its JSONDecodeError
Impressions(loaded) ==
    IF loaded.ok THEN [exc |-> "", v |-> loaded.v]
    ELSE [exc |-> "JSONDecodeError", v |-> PyNone]

ImpressionsOf(marker, part) ==
    IF marker /\ part.ok
    THEN Impressions(json_loads(<<"[">> \o part.v \o <<"]">>))
    ELSE [exc |-> "",
          v |-> PyList(<<DictOf(<< <<K_name, PyStr(NULL_RECORD_NAME)>> >>)>>)]

\* get_impressions_list(bsoup): [exc, v]
get_impressions_list(page) == ImpressionsOf(page.marker, UpToBracket(page.tail))

\* the file system: a function from the paths that exist to their text
WriteFile(fs, path, text) ==
    [p \in (DOMAIN fs) \cup {path} |-> IF p = path THEN text ELSE fs[p]]

\* a slip: site and dir written under each other's key
create_execution_file_swapped(fs, name, site, dir, exclude_list, start) ==
    WriteFile(fs, name,
              json_dumps(DictOf(<< <<K_site, dir>>, <<K_dir, site>>,
                                   <<K_exclude_list, exclude_list>>,
                                   <<K_start, start>> >>)))

\* create_execution_file(name, site, dir, exclude_list, start): the file
\* system after it
create_execution_file(fs, name, site, dir, exclude_list, start) ==
    WriteFile(fs, name,
              json_dumps(DictOf(<< <<K_site, site>>, <<K_dir, dir>>,
                                   <<K_exclude_list, exclude_list>>,
                                   <<K_start, start>> >>)))

\* a slip: the start field is not checked
CheckRequiredNoStart(loaded) ==
    IF ~loaded.ok
    THEN [exc |-> "JSONDecodeError", err |-> "", loaded |-> PyNone]
    ELSE IF loaded.v.t = "dict"
    THEN IF ~HasKey(loaded.v, K_site)
         THEN [exc |-> "", err |-> "Missing site value", loaded |-> PyNone]
         ELSE IF ~HasKey(loaded.v, K_dir)
         THEN [exc |-> "", err |-> "Missing dir value", loaded |-> PyNone]
         ELSE IF ~HasKey(loaded.v, K_exclude_list)
         THEN [exc |-> "", err |-> "Missing exclude_list value", loaded |-> PyNone]
         ELSE [exc |-> "", err |-> "", loaded |-> loaded.v]
    ELSE [exc |-> "", err |-> "Loaded JSON should be a dict ( {} )!", loaded |-> PyNone]

\* a slip: dir is checked before site
CheckRequiredDirFirst(loaded) ==
    IF ~loaded.ok
    THEN [exc |-> "JSONDecodeError", err |-> "", loaded |-> PyNone]
    ELSE IF loaded.v.t = "dict"
    THEN IF ~HasKey(loaded.v, K_dir)
         THEN [exc |-> "", err |-> "Missing dir value", loaded |-> PyNone]
         ELSE IF ~HasKey(loaded.v, K_site)
         THEN [exc |-> "", err |-> "Missing site value", loaded |-> PyNone]
         ELSE IF ~HasKey(loaded.v, K_exclude_list)
         THEN [exc |-> "", err |-> "Missing exclude_list value", loaded |-> PyNone]
         ELSE IF ~HasKey(loaded.v, K_start)
         THEN [exc |-> "", err |-> "Missing start value", loaded |-> PyNone]
         ELSE [exc |-> "", err |-> "", loaded |-> loaded.v]
    ELSE [exc |-> "", err |-> "Loaded JSON should be a dict ( {} )!", loaded |-> PyNone]

\* lines 130-147, for loaded what json.loads gave ([ok, v]; not ok is its
\* JSONDecodeError): the check for the required values
CheckRequired(loaded) ==
    IF ~loaded.ok
    THEN [exc |-> "JSONDecodeError", err |-> "", loaded |-> PyNone]
    ELSE IF loaded.v.t = "dict"
    THEN IF ~HasKey(loaded.v, K_site)
         THEN [exc |-> "", err |-> "Missing site value", loaded |-> PyNone]
         ELSE IF ~HasKey(loaded.v, K_dir)
         THEN [exc |-> "", err |-> "Missing dir value", loaded |-> PyNone]
         ELSE IF ~HasKey(loaded.v, K_exclude_list)
         THEN [exc |-> "", err |-> "Missing exclude_list value", loaded |-> PyNone]
         ELSE IF ~HasKey(loaded.v, K_start)
         THEN [exc |-> "", err |-> "Missing start value", loaded |-> PyNone]
         ELSE [exc |-> "", err |-> "", loaded |-> loaded.v]
    ELSE [exc |-> "", err |-> "Loaded JSON should be a dict ( {} )!", loaded |-> PyNone]

\* read_execution_file(path): [exc, err, loaded]
read_execution_file(fs, path) ==
    IF path \notin DOMAIN fs
    THEN [exc |-> "FileNotFoundError", err |-> "", loaded |-> PyNone]
    ELSE CheckRequired(json_loads(fs[path]))

\* lines 163-173, for tags what ast.literal_eval gave and start what int() gave
CreateFromAnswers(fs, in, tags, start) ==
    IF in.use_tags = "y" /\ ~tags.ok THEN [exc |-> "SyntaxError", fs |-> fs]
    \* int() raises ValueError, which "except TypeError" does not catch
    ELSE IF ~start.ok THEN [exc |-> "ValueError", fs |-> fs]
    ELSE [exc |-> "",
          fs |-> create_execution_file(
                     fs, in.ej_name, PyStr(BASE_SITE \o <<"/">> \o in.site),
                     PyStr(IF in.dir = <<>> THEN <<".", "/">> ELSE in.dir),
                     IF in.use_tags = "y" THEN tags.v ELSE PyList(<<>>),
                     PyInt(start.v))]

\* prompt_execution_values() on the answers typed, in.ej_name, in.site, in.dir,
\* in.use_tags, in.tags, in.start: [exc, fs]
prompt_execution_values(fs, in) ==
    CreateFromAnswers(fs, in, ast_literal_eval(<<"[">> \o in.tags \o <<"]">>),
                      int(in.start))

\* a slip: only a 5xx status code raises
raise_for_status_5xx(status_code) == 500 <= status_code /\ status_code < 600

\* Response.raise_for_status(): an HTTPError for a 4xx or 5xx status code
raise_for_status(status_code) == 400 <= status_code /\ status_code < 600

(***************************************************************************)
(* Bounds and the inputs the model draws from                              *)
(***************************************************************************)
\* the longest impressions list a catalog page holds
MaxShoes == 3
\* the largest starting file number typed or stored
MaxStart == 2
\* the deepest nesting of execute() (each "y" to "Create execution JSON
\* file?" nests one more)
MaxDepth == 2
\* the largest Jordans brand number typed to the batch driver
MaxBrand == 2

\* the paths typed: P1 may exist, P2 never does
P1 == <<"e">>
P2 == <<"f">>

Str(s) == PyStr(s)
TagList(tags) == PyList([k \in 1..Len(tags) |-> PyStr(tags[k])])

\* the exclude tag lists used: none; one tag; one tag with a wildcard; two
\* tags that can both match one name
TagLists ==
    {TagList(<<>>), TagList(<< <<"a">> >>), TagList(<< <<"b", ".">> >>),
     TagList(<< <<"a", "B">>, <<"A", ".">> >>)}

SITE_A == BASE_SITE \o <<"/", "a">>
DIR_O == <<"o", "/">>

Descriptor(site, dir, exclude_list, start) ==
    DictOf(<< <<K_site, site>>, <<K_dir, dir>>, <<K_exclude_list, exclude_list>>,
              <<K_start, start>> >>)

\* d without key k
DictDel(d, k) ==
    PyDict(SelectSeq(d.keys, LAMBDA x : x # k), [x \in (DOMAIN d.m) \ {k} |-> d.m[x]])

ValidDescriptors ==
    {Descriptor(Str(SITE_A), Str(DIR_O), tl, PyInt(n)) : tl \in TagLists, n \in 1..MaxStart}

BaseDescriptor == Descriptor(Str(SITE_A), Str(DIR_O), TagList(<<>>), PyInt(1))
DescriptorKeys == {K_site, K_dir, K_exclude_list, K_start}

\* descriptors with one or two fields missing
PartialDescriptors ==
    {DictDel(BaseDescriptor, k) : k \in DescriptorKeys}
        \cup {DictDel(DictDel(BaseDescriptor, K_dir), K_start)}

\* the text an execution file may hold when the program starts
InitialTexts ==
    {json_dumps(d) : d \in ValidDescriptors \cup PartialDescriptors}
        \cup {json_dumps(PyList(<<>>)), <<"{">>}

\* the shoes a catalog lists
Shoe(id, name) == DictOf(<< <<K_id, Str(id)>>, <<K_name, Str(name)>> >>)
CatalogShoes ==
    {Shoe(<<"1">>, <<"A", "b">>), Shoe(<<"2">>, <<"b", "a">>),
     Shoe(<<"3">>, <<"B">>), Shoe(<<"4">>, <<"a">>)}
\* the shoes the Air Jordan catalogs list
JordanShoes == {Shoe(<<"1">>, <<"A", "b">>), Shoe(<<"3">>, <<"B">>)}

SeqsUpTo(S, n) == UNION {[1..k -> S] : k \in 0..n}

\* the catalog pages the site may serve: a page with the impressions list of
\* any shoes, each listed once, a page whose list is no JSON, a page without the marker
PagesOf(shoes, n) ==
    {CatalogPage(TRUE, DumpItems(l) \o <<"]", ";">>) :
        l \in {x \in SeqsUpTo(shoes, n) : \A i, j \in 1..Len(x) : x[i] = x[j] => i = j}}
        \cup {CatalogPage(TRUE, <<"{", "'", "i", "d", "'", ":", " ", "1", "}", "]">>),
              CatalogPage(FALSE, <<>>)}

CatalogPages == PagesOf(CatalogShoes, MaxShoes)
\* the pages an Air Jordan catalog may serve: lists of at most two shoes
JordanPages ==
    {CatalogPage(TRUE, DumpItems(l) \o <<"]", ";">>) :
        l \in {<<>>} \cup {<<a>> : a \in JordanShoes} \cup (JordanShoes \X JordanShoes)}

JORDANS_SITE(brand_num) ==
    <<"h", "t", "t", "p", "s", ":", "/", "/", "w", "w", "w", ".", "f", "l", "i", "g", "h", "t", "c", "l", "u", "b", ".", "c", "o", "m", "/", "a", "i", "r", "-", "j", "o", "r", "d", "a", "n", "s", "/", "a", "i", "r", "-", "j", "o", "r", "d", "a", "n", "-">> \o IntToStr(brand_num)

\* the status codes a response to the catalog request may carry
StatusCodes == {200, 304, 404, 503}

\* the responses a GET of url may get: [status_code, page]
Responses(url) ==
    IF url = SITE_A THEN [status_code : StatusCodes, page : CatalogPages]
    ELSE [status_code : {200, 404}, page : JordanPages]

(***************************************************************************)
(* State                                                                   *)
(***************************************************************************)
VARIABLES
    stack,     \* the frames of execute(), the innermost last
    outcome,   \* "running", "returned" or "raised": how the program ended
    exc,       \* the exception that ended it ("" for none)
    retval,    \* what the last execute() to return returned
    fs,        \* the execution files: path -> text
    fetches,   \* the requests.get calls made, in order
    calls,     \* the create_all_files calls made, in order
    writes,    \* the create_file calls made, in order
    browsers,  \* the Browser sessions opened, in order
    drv,       \* the batch driver (jordans.py)
    arg,       \* the argument a function is applied to on its own
    res        \* and its result

vars ==
    <<stack, outcome, exc, retval, fs, fetches, calls, writes, browsers, drv, arg, res>>

Frame(expath) ==
    [pc |-> "start", expath |-> expath, loaded |-> PyNone, page |-> CatalogPage(FALSE, <<>>),
     call |-> 0, idx |-> 0, current_filenum |-> 0]

Top == stack[Len(stack)]
SetTop(f) == [stack EXCEPT ![Len(stack)] = f]
Running == outcome = "running" /\ stack # <<>>

\* an exception nothing catches: the program ends
Raise(e) ==
    /\ stack' = <<>>
    /\ outcome' = "raised"
    /\ exc' = e

\* return v from the innermost execute()
Return(v) ==
    /\ stack' = SubSeq(stack, 1, Len(stack) - 1)
    /\ retval' = v
    /\ outcome' = IF Len(stack) = 1 /\ drv.pc = "idle" THEN "returned" ELSE outcome
    /\ exc' = exc

DriverIdle ==
    [pc |-> "idle", min_jordans |-> 0, max_jordans |-> 0, brand_num |-> 0,
     path |-> <<>>, loaded |-> PyNone, last_file_number |-> 0]

(***************************************************************************)
(* execute(expath), generator.py lines 176-213                             *)
(***************************************************************************)
\* lines 182-189: ask whether to create an execution file
ExecuteStart ==
    /\ Running /\ Top.pc = "start"
    /\ \E answer \in {"y", "N"} :
          /\ answer = "y" => Len(stack) < MaxDepth
          /\ LET gen_json == IF Top.expath = PyNone THEN answer = "y" ELSE FALSE
             IN  stack' = SetTop([Top EXCEPT !.pc = IF gen_json THEN "prompt" ELSE "load"])
    /\ UNCHANGED <<outcome, exc, retval, fs, fetches, calls, writes, browsers, drv, arg, res>>

PromptInputs ==
    [ej_name : {P1}, site : {<<"a">>}, dir : {<<>>, DIR_O}, use_tags : {"y", "N"},
     tags : {<<"'", "a", "'">>, <<"\"", "a", "B", "\"", ",", " ", "'", "A", ".", "'">>,
             <<"'", "a">>},
     start : {IntToStr(n) : n \in 1..MaxStart} \cup {<<"x">>}]

\* line 191: prompt_execution_values()
ExecutePrompt ==
    /\ Running /\ Top.pc = "prompt"
    /\ \E in \in PromptInputs :
          \E r \in {prompt_execution_values(fs, in)} :
              IF r.exc # ""
              THEN Raise(r.exc) /\ UNCHANGED <<retval, fs>>
              ELSE /\ fs' = r.fs
                   /\ stack' = SetTop([Top EXCEPT !.pc = "call"])
                   /\ UNCHANGED <<outcome, exc, retval>>
    /\ UNCHANGED <<fetches, calls, writes, browsers, drv, arg, res>>

\* line 192: execute(); its result is dropped and the caller goes on at
\* line 207
ExecuteRecurse ==
    /\ Running /\ Top.pc = "call"
    /\ stack' = Append(SetTop([Top EXCEPT !.pc = "fetch"]), Frame(PyNone))
    /\ UNCHANGED <<outcome, exc, retval, fs, fetches, calls, writes, browsers, drv, arg, res>>

\* lines 195-204: load the execution file
ExecuteLoad ==
    /\ Running /\ Top.pc = "load"
    /\ \E typed \in {P1, P2} :
          \E expath \in {IF Top.expath = PyNone THEN typed ELSE Top.expath.v} :
          \E r \in {read_execution_file(fs, expath)} :
              IF r.exc = "JSONDecodeError" THEN Return(PyBool(FALSE))
              ELSE IF r.exc # "" THEN Raise(r.exc) /\ UNCHANGED retval
              ELSE IF r.err # "" THEN Return(PyBool(FALSE))
              ELSE /\ stack' = SetTop([Top EXCEPT !.pc = "fetch", !.expath = Str(expath),
                                                  !.loaded = r.loaded])
                   /\ UNCHANGED <<outcome, exc, retval>>
    /\ UNCHANGED <<fs, fetches, calls, writes, browsers, drv, arg, res>>

\* a requests.get call: the url, and the status code and page of the response
Fetched(url, code, page) == [url |-> url, status_code |-> code, page |-> page]
\* the status_code recorded for a request that got no response
NoResponse == 0

\* lines 207-210: fetch the catalog page
ExecuteFetch ==
    /\ Running /\ Top.pc = "fetch"
    /\ IF Top.loaded = PyNone
       THEN \* None["site"]
            Raise("TypeError") /\ UNCHANGED <<retval, fetches>>
       ELSE IF ~HasKey(Top.loaded, K_site)
       THEN Raise("KeyError") /\ UNCHANGED <<retval, fetches>>
       ELSE LET url == Top.loaded.m[K_site].v
            IN  \/ /\ fetches' = Append(fetches, Fetched(url, NoResponse, CatalogPage(FALSE, <<>>)))
                   /\ Raise("ConnectionError") /\ UNCHANGED retval
                \/ \E req \in Responses(url) :
                      /\ fetches' = Append(fetches, Fetched(url, req.status_code, req.page))
                      /\ IF raise_for_status(req.status_code)
                         THEN Raise("HTTPError") /\ UNCHANGED retval
                         ELSE /\ stack' = SetTop([Top EXCEPT !.pc = "generate",
                                                             !.page = req.page])
                              /\ UNCHANGED <<outcome, exc, retval>>
    /\ UNCHANGED <<fs, calls, writes, browsers, drv, arg, res>>

Call(directory, shoelist, excludetags, startnum) ==
    [directory |-> directory, shoelist |-> shoelist, excludetags |-> excludetags,
     startnum |-> startnum, ret |-> PyNone]

\* line 212, the arguments and lines 57-58: enter create_all_files
ExecuteGenerate ==
    /\ Running /\ Top.pc = "generate"
    /\ \E shoelist \in {get_impressions_list(Top.page)}, loaded \in {Top.loaded} :
           IF ~HasKey(loaded, K_dir)
           THEN Raise("KeyError") /\ UNCHANGED calls
           ELSE IF shoelist.exc # ""
           THEN Raise(shoelist.exc) /\ UNCHANGED calls
           ELSE IF ~HasKey(loaded, K_exclude_list) \/ ~HasKey(loaded, K_start)
           THEN Raise("KeyError") /\ UNCHANGED calls
           ELSE /\ calls' = Append(calls, Call(loaded.m[K_dir].v, shoelist.v.v,
                                               loaded.m[K_exclude_list].v,
                                               loaded.m[K_start].v))
                /\ stack' = SetTop([Top EXCEPT !.pc = "loop", !.call = Len(calls) + 1,
                                               !.idx = 1,
                                               !.current_filenum = loaded.m[K_start].v - 1])
                /\ UNCHANGED <<outcome, exc>>
    /\ UNCHANGED <<retval, fs, fetches, writes, browsers, drv, arg, res>>

Written(call, idx, file) ==
    [call |-> call, idx |-> idx, path |-> file.path, text |-> file.text]

\* lines 58-63: one iteration of the for loop of create_all_files
CreateAllFilesStep ==
    /\ Running /\ Top.pc = "loop"
    /\ Top.idx <= Len(calls[Top.call].shoelist)
    /\ \E c \in {calls[Top.call]} :
       \E r \in {create_shoe_pair(LoopShoe(c.shoelist, Top.idx), c.excludetags)} :
       \E current_filenum \in {NextFilenum(Top.current_filenum, r.pair)} :
           /\ browsers' = browsers \o (IF r.pair = PyNone THEN <<>> ELSE r.pair.sessions)
           /\ IF r.exc # ""
              THEN Raise(r.exc) /\ UNCHANGED writes
              ELSE /\ writes' =
                        IF r.pair = PyNone THEN writes
                        ELSE Append(writes,
                                    Written(Top.call, Top.idx,
                                            create_file(c.directory,
                                                        IntToStr(current_filenum),
                                                        r.pair.name, r.pair.image)))
                   /\ stack' = SetTop([Top EXCEPT !.idx = Top.idx + 1,
                                                  !.current_filenum = current_filenum])
                   /\ UNCHANGED <<outcome, exc>>
    /\ UNCHANGED <<retval, fs, fetches, calls, drv, arg, res>>

\* lines 64 and 213: the loop is over; return [lf, True]
CreateAllFilesReturn ==
    /\ Running /\ Top.pc = "loop"
    /\ Top.idx > Len(calls[Top.call].shoelist)
    /\ calls' = [calls EXCEPT ![Top.call].ret = PyInt(Top.current_filenum)]
    /\ Return(PyList(<<PyInt(Top.current_filenum), PyBool(TRUE)>>))
    /\ UNCHANGED <<fs, fetches, writes, browsers, drv, arg, res>>

(***************************************************************************)
(* run.py: execute(sys.argv[1]) or execute()                               *)
(***************************************************************************)
InitCommon ==
    /\ outcome = "running"
    /\ exc = ""
    /\ retval = PyNone
    /\ fetches = <<>>
    /\ calls = <<>>
    /\ writes = <<>>
    /\ browsers = <<>>

Init ==
    /\ InitCommon
    /\ fs \in {<<>>} \cup {WriteFile(<<>>, P1, text) : text \in InitialTexts}
    /\ \E expath \in {PyNone, Str(P1)} : stack = <<Frame(expath)>>
    /\ drv = DriverIdle
    /\ arg = PyNone
    /\ res = PyNone

Next ==
    \/ ExecuteStart
    \/ ExecutePrompt
    \/ ExecuteRecurse
    \/ ExecuteLoad
    \/ ExecuteFetch
    \/ ExecuteGenerate
    \/ CreateAllFilesStep
    \/ CreateAllFilesReturn

Spec == Init /\ [][Next]_vars

(***************************************************************************)
(* jordans.py, the batch driver                                            *)
(***************************************************************************)
\* the brand numbers within_range accepts, line 16
MIN_JORDANS == 1
MAX_JORDANS == 23

within_range(num, minimum, maximum) == minimum <= num /\ num <= maximum

\* a slip: the returned number is used again
NextStartSame(last_file_number) == last_file_number

\* line 37: the number the next generation starts with
NextStart(last_file_number) == last_file_number + 1

DriverInputs ==
    [min : {IntToStr(n) : n \in 0..MaxBrand} \cup {<<"x">>},
     max : {IntToStr(n) : n \in 0..MaxBrand},
     path : {P1, P2}]

\* lines 11-22: the brand range and the execution file.  Whatever is raised
\* inside the try reaches "except ...:", which is itself a TypeError
DriverStart ==
    /\ outcome = "running" /\ stack = <<>> /\ drv.pc = "start"
    /\ \E in \in DriverInputs :
          \E min_jordans \in {int(in.min)}, max_jordans \in {int(in.max)},
             r \in {read_execution_file(fs, in.path)} :
              IF \/ ~min_jordans.ok \/ ~max_jordans.ok
                 \/ ~within_range(min_jordans.v, MIN_JORDANS, MAX_JORDANS)
                 \/ ~within_range(max_jordans.v, MIN_JORDANS, MAX_JORDANS)
                 \/ min_jordans.v > max_jordans.v
                 \/ r.exc # ""
              THEN Raise("TypeError") /\ UNCHANGED drv
              ELSE /\ drv' = [drv EXCEPT !.pc = "ask", !.min_jordans = min_jordans.v,
                                         !.max_jordans = max_jordans.v, !.path = in.path,
                                         !.loaded = r.loaded]
                   /\ UNCHANGED <<stack, outcome, exc>>
    /\ UNCHANGED <<retval, fs, fetches, calls, writes, browsers, arg, res>>

\* line 27: the starting file number
DriverAskStart ==
    /\ outcome = "running" /\ stack = <<>> /\ drv.pc = "ask"
    /\ \E typed \in {IntToStr(n) : n \in 1..MaxStart} \cup {<<"x">>} :
          \E n \in {int(typed)} :
              IF ~n.ok THEN Raise("ValueError") /\ UNCHANGED drv
              ELSE /\ drv' = [drv EXCEPT !.pc = "loop", !.last_file_number = n.v,
                                         !.brand_num = drv.min_jordans]
                   /\ UNCHANGED <<stack, outcome, exc>>
    /\ UNCHANGED <<retval, fs, fetches, calls, writes, browsers, arg, res>>

\* lines 28-36: the next brand: rewrite the execution file and call
\* execute(path); after the last brand the program ends
DriverLoop ==
    /\ outcome = "running" /\ stack = <<>> /\ drv.pc = "loop"
    /\ IF drv.brand_num > drv.max_jordans
       THEN /\ outcome' = "returned"
            /\ UNCHANGED <<stack, exc, fs, drv>>
       ELSE IF drv.loaded = PyNone
       THEN \* None["dir"]
            Raise("TypeError") /\ UNCHANGED <<fs, drv>>
       ELSE /\ fs' = create_execution_file(fs, drv.path,
                                           Str(JORDANS_SITE(drv.brand_num)),
                                           drv.loaded.m[K_dir],
                                           drv.loaded.m[K_exclude_list],
                                           PyInt(drv.last_file_number))
            /\ stack' = <<Frame(Str(drv.path))>>
            /\ drv' = [drv EXCEPT !.pc = "wait"]
            /\ UNCHANGED <<outcome, exc>>
    /\ UNCHANGED <<retval, fetches, calls, writes, browsers, arg, res>>

\* lines 36-37: execute(path) returned; unpack its result
DriverResume ==
    /\ outcome = "running" /\ stack = <<>> /\ drv.pc = "wait"
    /\ IF retval.t # "list"
       THEN \* False does not unpack
            Raise("TypeError") /\ UNCHANGED drv
       ELSE /\ drv' = [drv EXCEPT !.pc = "loop",
                                  !.last_file_number = NextStart(retval.v[1].v),
                                  !.brand_num = drv.brand_num + 1]
            /\ UNCHANGED <<stack, outcome, exc>>
    /\ UNCHANGED <<retval, fs, fetches, calls, writes, browsers, arg, res>>

\* the text the execution file may hold when the batch driver starts
BatchTexts ==
    {json_dumps(Descriptor(Str(SITE_A), Str(DIR_O), tl, PyInt(1))) :
        tl \in {TagList(<<>>), TagList(<< <<"a">> >>)}}
        \cup {json_dumps(DictDel(BaseDescriptor, K_dir)), <<"{">>}

InitBatch ==
    /\ InitCommon
    /\ fs \in {<<>>} \cup {WriteFile(<<>>, P1, text) : text \in BatchTexts}
    /\ stack = <<>>
    /\ drv = [DriverIdle EXCEPT !.pc = "start"]
    /\ arg = PyNone
    /\ res = PyNone

NextBatch ==
    \/ DriverStart
    \/ DriverAskStart
    \/ DriverLoop
    \/ DriverResume
    \/ ExecuteStart
    \/ ExecuteLoad
    \/ ExecuteFetch
    \/ ExecuteGenerate
    \/ CreateAllFilesStep
    \/ CreateAllFilesReturn

SpecBatch == InitBatch /\ [][NextBatch]_vars

(***************************************************************************)
(* create_shoe_pair on its own: any name against any tag list              *)
(***************************************************************************)
\* the longest shoe name and the longest tag list tried
MaxNameLen == 2
MaxTags == 2

FilterNames == SeqsUpTo({"a", "A", "b", "B"}, MaxNameLen)
FilterPatterns ==
    {<<>>, <<"a">>, <<"B">>, <<".">>, <<"a", "b">>, <<"b", ".">>, <<"A", ".", "b">>}
FilterTagLists == {TagList(tags) : tags \in SeqsUpTo(FilterPatterns, MaxTags)}

InitFilter ==
    /\ InitCommon
    /\ stack = <<>>
    /\ drv = DriverIdle
    /\ fs = <<>>
    /\ arg \in [idobj : {Shoe(<<"2">>, name) : name \in FilterNames},
                excludetags : FilterTagLists]
    /\ res = PyNone

ApplyCreateShoePair ==
    /\ res = PyNone
    /\ res' = create_shoe_pair(arg.idobj, arg.excludetags.v)
    /\ UNCHANGED <<stack, outcome, exc, retval, fs, fetches, calls, writes, browsers,
                   drv, arg>>

NextFilter == ApplyCreateShoePair

SpecFilter == InitFilter /\ [][NextFilter]_vars

(***************************************************************************)
(* create_execution_file and read_execution_file on their own              *)
(***************************************************************************)
SITE_Q == <<"h", "\"", "/", "\\">>
DIR_B == <<"\\", "\"">>
DescSites == {Str(SITE_A), Str(SITE_Q)}
DescDirs == {Str(DIR_O), Str(DIR_B)}
DescTagLists ==
    {TagList(<<>>), TagList(<< <<"a">> >>), TagList(<< <<"a", "\"">>, <<>>, <<"\\">> >>)}
DescStarts == {PyInt(n) : n \in ((0 - 1)..MaxStart) \cup {10, 120}}

\* d restricted to the keys ks
DictOnly(d, ks) ==
    PyDict(SelectSeq(d.keys, LAMBDA x : x \in ks), [x \in (DOMAIN d.m) \cap ks |-> d.m[x]])

\* what the execution file may hold at first: descriptors with any fields
\* missing, a list, and text that is no JSON
FirstContents ==
    {DictOnly(Descriptor(site, Str(DIR_O), tl, PyInt(1)), ks) :
        site \in DescSites, tl \in DescTagLists, ks \in SUBSET DescriptorKeys}
        \cup {PyList(<<>>), PyNone}

InitDescriptor ==
    /\ InitCommon
    /\ stack = <<>>
    /\ drv = DriverIdle
    /\ arg \in FirstContents
    /\ fs = WriteFile(<<>>, P1, IF arg = PyNone THEN <<"{">> ELSE json_dumps(arg))
    /\ res = PyNone

\* the arguments of a create_execution_file call
Args(site, dir, exclude_list, start) ==
    [t |-> "args", site |-> site, dir |-> dir, exclude_list |-> exclude_list,
     start |-> start]

WriteExecutionFile ==
    /\ arg.t # "args"
    /\ \E site \in DescSites, dir \in DescDirs, tl \in DescTagLists, start \in DescStarts :
          /\ fs' = create_execution_file(fs, P1, site, dir, tl, start)
          /\ arg' = Args(site, dir, tl, start)
    /\ res' = PyNone
    /\ UNCHANGED <<stack, outcome, exc, retval, fetches, calls, writes, browsers, drv>>

ReadExecutionFile ==
    /\ res = PyNone
    /\ res' = read_execution_file(fs, P1)
    /\ UNCHANGED <<stack, outcome, exc, retval, fs, fetches, calls, writes, browsers,
                   drv, arg>>

NextDescriptor == WriteExecutionFile \/ ReadExecutionFile

SpecDescriptor == InitDescriptor /\ [][NextDescriptor]_vars

(***************************************************************************)
(* ShoePair(id) on its own: one candidate resolved after another           *)
(***************************************************************************)
\* the most candidates resolved in a row
MaxResolved == 3

ResolveIds == {<<"1">>, <<"2">>, <<"3">>, <<"4">>, <<"5">>, <<"6">>, <<"7">>}

InitResolve ==
    /\ InitCommon
    /\ stack = <<>>
    /\ drv = DriverIdle
    /\ fs = <<>>
    /\ arg = PyList(<<>>)
    /\ res = PyNone

\* shoepair.ShoePair(id): arg is the list of the ids resolved so far, res the
\* last result; an exception of the constructor ends the program
ResolveNext ==
    /\ outcome = "running"
    /\ Len(arg.v) < MaxResolved
    /\ \E id \in ResolveIds :
       \E sp \in {ShoePair(id)} :
          /\ arg' = PyList(Append(arg.v, PyStr(id)))
          /\ res' = sp
          /\ browsers' = browsers \o sp.sessions
          /\ outcome' = IF sp.exc # "" THEN "raised" ELSE outcome
          /\ exc' = sp.exc
    /\ UNCHANGED <<stack, retval, fs, fetches, calls, writes, drv>>

NextResolve == ResolveNext

SpecResolve == InitResolve /\ [][NextResolve]_vars

(***************************************************************************)
(* prompt_execution_values on its own: any answers typed                   *)
(***************************************************************************)
\* the answers typed at the prompts: the starting file number may be a
\* number, a negative number, empty or no number at all
PromptAnswers ==
    [ej_name : {P1, P2}, site : {<<"a">>}, dir : {<<>>, DIR_O}, use_tags : {"y", "N"},
     tags : {<<"'", "a", "'">>, <<"\"", "a", "B", "\"", ",", " ", "'", "A", ".", "'">>,
             <<"'", "a">>},
     start : {IntToStr(n) : n \in 0..MaxStart}
                 \cup {<<"-", "1">>, <<"x">>, <<>>, <<"1", ".", "5">>}]

InitPrompt ==
    /\ InitCommon
    /\ stack = <<>>
    /\ drv = DriverIdle
    /\ fs = <<>>
    /\ arg \in PromptAnswers
    /\ res = PyNone

\* prompt_execution_values() with the answers arg: res is [exc, fs]
ApplyPrompt ==
    /\ res = PyNone
    /\ \E r \in {prompt_execution_values(fs, arg)} :
          /\ res' = r
          /\ fs' = r.fs
          /\ outcome' = IF r.exc # "" THEN "raised" ELSE outcome
          /\ exc' = r.exc
    /\ UNCHANGED <<stack, retval, fetches, calls, writes, browsers, drv, arg>>

NextPrompt == ApplyPrompt

SpecPrompt == InitPrompt /\ [][NextPrompt]_vars

(***************************************************************************)
(* Properties                                                              *)
(***************************************************************************)
\* Matching stated apart from re_search: tag matches somewhere in name, a
\* "." standing for any character, letters compared without case.
SameLetter(a, b) ==
    a = b \/ {a, b} \in {{"a", "A"}, {"b", "B"}}

TagMatches(tag, name) ==
    \E i \in 1..(Len(name) - Len(tag) + 1) :
        \A j \in 1..Len(tag) : tag[j] = "." \/ SameLetter(tag[j], name[i + j - 1])

IsExcluded(shoe, excludetags) ==
    \E k \in 1..Len(excludetags) : TagMatches(excludetags[k].v, shoe.m[K_name].v)

\* the positions in the shoe list of call c of the candidates kept
KeptIndices(c) ==
    {i \in 1..Len(c.shoelist) : ~IsExcluded(c.shoelist[i], c.excludetags)}

\* the position of the j-th kept candidate
NthKept(c, j) ==
    CHOOSE i \in KeptIndices(c) : Cardinality({x \in KeptIndices(c) : x <= i}) = j

\* the files written by the n-th create_all_files call, in order
WritesOf(n) == SelectSeq(writes, LAMBDA w : w.call = n)

FilePath(directory, n) == directory \o IntToStr(n) \o JSON_SUFFIX

AllHaveIds(shoelist) == \A i \in 1..Len(shoelist) : HasKey(shoelist[i], K_id)

\* C1: once create_all_files has finished, the file numbers written are
\* exactly start..start+K-1 for K the number of candidates not excluded, one
\* file per number, and the counter returned is start-1+K.
C1_Numbering ==
    \A n \in 1..Len(calls) :
        calls[n].ret # PyNone =>
            LET c == calls[n]
                K == Cardinality(KeptIndices(c))
                ws == WritesOf(n)
            IN  /\ Len(ws) = K
                /\ {ws[j].path : j \in 1..Len(ws)} =
                       {FilePath(c.directory, m) : m \in c.startnum..(c.startnum + K - 1)}
                /\ c.ret = PyInt(c.startnum - 1 + K)
                /\ (c.excludetags = <<>> => K = Len(c.shoelist))

\* a finished call that started at 2, excluded a candidate and kept two
C1_Witness ==
    \E n \in 1..Len(calls) :
        /\ calls[n].ret # PyNone
        /\ calls[n].startnum = 2
        /\ Cardinality(KeptIndices(calls[n])) = 2
        /\ Len(calls[n].shoelist) = 3
        /\ Len(WritesOf(n)) = 2

\* C2: create_shoe_pair returns None exactly when some tag of the list
\* matches the name without regard to case; with no tags it never does.
C2_ExcludedIffTagMatches ==
    res # PyNone =>
        /\ res.exc = ""
        /\ (res.pair = PyNone <=> IsExcluded(arg.idobj, arg.excludetags.v))
        /\ (arg.excludetags.v = <<>> => res.pair # PyNone)

\* excluded by the second tag alone, which matches only without case
C2_Witness ==
    /\ res # PyNone
    /\ res.pair = PyNone
    /\ Len(arg.excludetags.v) = 2
    /\ ~TagMatches(arg.excludetags.v[1].v, arg.idobj.m[K_name].v)
    /\ arg.excludetags.v[2].v = <<"a", "b">>
    /\ arg.idobj.m[K_name].v = <<"A", "B">>

\* a catalog page with no items, without the marker, or whose list is no JSON
Degenerate(page) ==
    \/ ~page.marker
    \/ ~UpToBracket(page.tail).ok
    \/ UpToBracket(page.tail).v = <<>>
    \/ ~json_loads(<<"[">> \o UpToBracket(page.tail).v \o <<"]">>).ok

\* C3, as the specification states it: a run that fetched a catalog page
\* with zero items, without the marker or with unparsable content completes
\* and writes exactly one file, whose name is the sentinel.
C3_OnePlaceholderFile ==
    \A i \in 1..Len(fetches) :
        (/\ outcome # "running"
         /\ fetches[i].status_code = 200
         /\ Degenerate(fetches[i].page))
            => /\ outcome = "returned"
               /\ Len(writes) = 1
               /\ json_loads(writes[1].text).v.m[K_name]
                      \in {PyStr(NULL_NAME_STRING), PyStr(NULL_RECORD_NAME)}

\* the page of the session a ShoePair reads its name and image from
SessionPage(s) == Browse(s.sessions[s.brow].url)
ExtractionPage(id) == SessionPage(_search(id))

\* how many candidates of the n-th call the loop is through
Processed(n) ==
    IF calls[n].ret # PyNone THEN Len(calls[n].shoelist)
    ELSE IF stack # <<>> /\ Top.pc = "loop" /\ Top.call = n THEN Top.idx - 1
    ELSE 0

\* C4: every kept candidate the loop is through has its file, whose name is
\* "NoNameFound" when the name selector matched nothing and whose img is
\* "NoImageURLFound" when the image selector matched nothing, each field on
\* its own; and a call over candidates with ids is either in its loop or
\* has returned: no exception ends it.
C4_SelectorMiss ==
    \A n \in 1..Len(calls) :
        LET c == calls[n]
            ws == WritesOf(n)
        IN  /\ \A i \in KeptIndices(c) :
                  i <= Processed(n) =>
                      \E j \in 1..Len(ws) :
                          /\ ws[j].idx = i
                          /\ \E page \in {ExtractionPage(c.shoelist[i].m[K_id].v)},
                                file \in {json_loads(ws[j].text)} :
                                 /\ file.ok
                                 /\ file.v.m[K_name] =
                                        PyStr(IF page.name_sel = <<>> THEN NULL_NAME_STRING
                                              ELSE page.name_sel[1])
                                 /\ file.v.m[K_img] =
                                        PyStr(IF page.img_sel = <<>> THEN NULL_IMAGE_STRING
                                              ELSE page.img_sel[1])
            /\ AllHaveIds(c.shoelist) =>
                   \/ c.ret # PyNone
                   \/ stack # <<>> /\ Top.pc = "loop" /\ Top.call = n

\* a finished call whose first file has both sentinels, its second only the
\* image's, its third only the name's
C4_Witness ==
    \E n \in 1..Len(calls) :
        /\ calls[n].ret # PyNone
        /\ Len(WritesOf(n)) = 3
        /\ WritesOf(n)[1].text =
               create_file(<<>>, <<>>, NULL_NAME_STRING, NULL_IMAGE_STRING).text
        /\ WritesOf(n)[2].text = create_file(<<>>, <<>>, <<"b", "a">>, NULL_IMAGE_STRING).text
        /\ WritesOf(n)[3].text = create_file(<<>>, <<>>, NULL_NAME_STRING, <<"u", "3">>).text

\* a descriptor that passes validation
Validated(loaded) == loaded.t = "dict" /\ DescriptorKeys \subseteq DOMAIN loaded.m

\* C5: a catalog request is made only by an execute() that has loaded the
\* execution file it names and found all four fields in it; and when
\* execute() returns False nothing has been requested, opened or written.
C5_FetchOnlyValidated ==
    [][/\ Len(fetches') > Len(fetches) =>
              /\ stack # <<>>
              /\ Validated(Top.loaded)
              /\ Top.expath # PyNone
              /\ Top.expath.v \in DOMAIN fs
              /\ json_loads(fs[Top.expath.v]).v = Top.loaded
       /\ retval' = PyBool(FALSE) =>
              /\ fetches' = <<>>
              /\ calls' = <<>>
              /\ writes' = <<>>
              /\ browsers' = <<>>]_vars

\* the request made by the execute() started after the prompts
C5_Witness ==
    /\ Len(fetches) = 1
    /\ Len(stack) = 2
    /\ Top.pc = "generate"
    /\ Validated(Top.loaded)

FieldOrder == <<K_site, K_dir, K_exclude_list, K_start>>
MissingError ==
    <<"Missing site value", "Missing dir value", "Missing exclude_list value",
      "Missing start value">>

\* C6: read_execution_file of a file holding a mapping returns the error of
\* the first field missing in the order site, dir, exclude_list, start, and
\* no descriptor with it; with all four fields it returns no error and the
\* mapping as it was.
C6_FirstMissingField ==
    (res # PyNone /\ arg.t = "dict") =>
        LET missing == {k \in 1..4 : FieldOrder[k] \notin DOMAIN arg.m}
        IN  /\ res.exc = ""
            /\ IF missing = {}
               THEN res.err = "" /\ res.loaded = arg
               ELSE /\ res.loaded = PyNone
                    /\ \E k \in missing :
                          /\ \A x \in missing : k <= x
                          /\ res.err = MissingError[k]
                    /\ (Cardinality(missing) = 1 =>
                           \A k \in missing : res.err = MissingError[k])

\* dir and exclude_list both missing: the error is dir's
C6_Witness ==
    /\ res # PyNone
    /\ arg.t = "dict"
    /\ DOMAIN arg.m = {K_site, K_start}
    /\ res.err = "Missing dir value"

\* C7: each run of the batch starts at the counter the run before returned
\* plus 1; a run returns start-1+K; so the files of all runs are numbered
\* without gap or repeat from the number typed, and a run that keeps nothing
\* leaves the next start where it was.
C7_Chaining ==
    /\ \A n \in 1..Len(calls) :
          LET c == calls[n]
              K == Cardinality(KeptIndices(c))
          IN  /\ n > 1 => /\ calls[n - 1].ret # PyNone
                          /\ c.startnum = calls[n - 1].ret.v + 1
              /\ c.ret # PyNone => c.ret = PyInt(c.startnum - 1 + K)
              /\ (c.ret # PyNone /\ K = 0 /\ n < Len(calls)) =>
                     calls[n + 1].startnum = c.startnum
    /\ \A j \in 1..Len(writes) :
          writes[j].path = FilePath(calls[1].directory, calls[1].startnum + j - 1)
    /\ (Len(calls) = 1 /\ calls[1].ret = PyNone) =>
           calls[1].startnum = drv.last_file_number

\* a second run writing after a first run that excluded one shoe and kept one
C7_Witness ==
    /\ Len(calls) = 2
    /\ Len(calls[1].shoelist) = 2
    /\ Len(WritesOf(1)) = 1
    /\ Len(WritesOf(2)) = 2
    /\ calls[1].startnum = 2

FetchFailed(f) == f.status_code = NoResponse \/ ~(200 <= f.status_code /\ f.status_code < 300)

\* C8, as the specification states it: a catalog request that got no
\* response or a status outside 2xx ends the run in failure with nothing
\* extracted, opened or written, and is the last request made.
C8_NonSuccessAborts ==
    \A i \in 1..Len(fetches) :
        FetchFailed(fetches[i]) =>
            /\ i = Len(fetches)
            /\ outcome = "raised"
            /\ calls = <<>> /\ browsers = <<>> /\ writes = <<>>

FetchRaised(f) == f.status_code = NoResponse \/ (400 <= f.status_code /\ f.status_code < 600)

\* C8, amended: a catalog request that got no response or a 4xx or 5xx
\* status ends the run in failure with nothing extracted, opened or
\* written, and is the last request made.
C8_ErrorStatusAborts ==
    \A i \in 1..Len(fetches) :
        FetchRaised(fetches[i]) =>
            /\ i = Len(fetches)
            /\ outcome = "raised"
            /\ exc \in {"ConnectionError", "HTTPError"}
            /\ stack = <<>>
            /\ calls = <<>> /\ browsers = <<>> /\ writes = <<>>

\* a run ended by a 404
C8_Witness ==
    /\ Len(fetches) = 1
    /\ fetches[1].status_code = 404
    /\ outcome = "raised"
    /\ exc = "HTTPError"

\* C9: read_execution_file of what create_execution_file wrote returns no
\* error and a mapping with the site, dir, exclude_list and start written.
C9_RoundTrip ==
    (arg.t = "args" /\ res # PyNone) =>
        /\ res.exc = ""
        /\ res.err = ""
        /\ res.loaded.t = "dict"
        /\ DOMAIN res.loaded.m = DescriptorKeys
        /\ res.loaded.m[K_site] = arg.site
        /\ res.loaded.m[K_dir] = arg.dir
        /\ res.loaded.m[K_exclude_list] = arg.exclude_list
        /\ res.loaded.m[K_start] = arg.start

\* a descriptor with quotes and backslashes, three tags and a start of 120
C9_Witness ==
    /\ arg.t = "args"
    /\ res # PyNone
    /\ arg.site = Str(SITE_Q)
    /\ arg.dir = Str(DIR_B)
    /\ Len(arg.exclude_list.v) = 3
    /\ arg.start = PyInt(120)

IsSearch(session) ==
    /\ Len(session.url) > Len(BASE_SEARCH_SITE)
    /\ SubSeq(session.url, 1, Len(BASE_SEARCH_SITE)) = BASE_SEARCH_SITE

\* C10: the j-th file a create_all_files call writes is the file of the
\* j-th candidate, in list order, that is not excluded, under the number
\* start+j-1; and the searches are made one candidate at a time in that
\* order, each before the file of its candidate.
C10_CatalogOrder ==
    \A n \in 1..Len(calls) :
        LET c == calls[n]
            ws == WritesOf(n)
            searches == SelectSeq(browsers, IsSearch)
        IN  /\ Len(ws) <= Cardinality(KeptIndices(c))
            /\ \A j \in 1..Len(ws) :
                  \E i \in {NthKept(c, j)} :
                  \E sp \in {ShoePair(c.shoelist[i].m[K_id].v)} :
                      /\ ws[j].idx = i
                      /\ ws[j].path = FilePath(c.directory, c.startnum + j - 1)
                      /\ ws[j].text = create_file(c.directory, IntToStr(c.startnum + j - 1),
                                                  sp.name, sp.image).text
            /\ Len(calls) = 1 =>
                  /\ Len(searches) = Len(ws)
                  /\ \A j \in 1..Len(searches) :
                        searches[j].url = SearchUrl(c.shoelist[NthKept(c, j)].m[K_id].v)

\* a finished call that excluded its first candidate and wrote the files of
\* two different shoes after it
C10_Witness ==
    \E n \in 1..Len(calls) :
        /\ calls[n].ret # PyNone
        /\ Len(calls[n].shoelist) = 3
        /\ KeptIndices(calls[n]) = {2, 3}
        /\ Len(WritesOf(n)) = 2
        /\ calls[n].shoelist[2] # calls[n].shoelist[3]
        /\ WritesOf(n)[1].text # WritesOf(n)[2].text

\* C11: when create_shoe_pair excludes a candidate, the tag it stopped at
\* and reports is the first tag of the list, in list order, that matches the
\* name; no tag after it is reached.
C11_FirstMatchingTag ==
    (res # PyNone /\ res.pair = PyNone /\ res.exc = "") =>
        /\ res.etag \in 1..Len(arg.excludetags.v)
        /\ TagMatches(arg.excludetags.v[res.etag].v, arg.idobj.m[K_name].v)
        /\ \A k \in 1..(res.etag - 1) :
               ~TagMatches(arg.excludetags.v[k].v, arg.idobj.m[K_name].v)

\* two different tags that both match the name: the first is reported
C11_Witness ==
    /\ res # PyNone
    /\ res.pair = PyNone
    /\ res.etag = 1
    /\ Len(arg.excludetags.v) = 2
    /\ arg.excludetags.v[1] # arg.excludetags.v[2]
    /\ TagMatches(arg.excludetags.v[1].v, arg.idobj.m[K_name].v)
    /\ TagMatches(arg.excludetags.v[2].v, arg.idobj.m[K_name].v)

\* C12, as the specification states it: whenever the resolution of a
\* candidate is over, by its result or by an error, every browser session
\* opened so far is closed.
C12_SessionsClosed ==
    \A i \in 1..Len(browsers) : ~browsers[i].open

\* "-" + id ends a path segment of href: it stands at the end of href or
\* before a "/"
EndsSegment(href, id) ==
    \E i \in 1..(Len(href) - Len(id)) :
        /\ SubSeq(href, i, i + Len(id)) = <<"-">> \o id
        /\ (i + Len(id) = Len(href) \/ href[i + Len(id) + 1] = "/")

\* the positions on the search-results page of id of the links that qualify
SuffixLinks(links, id) ==
    {k \in 1..Len(links) : links[k] # PyNone /\ EndsSegment(links[k].v, id)}

\* the url of the session the last ShoePair took its name and image from
ExtractionUrl(sp) == sp.sessions[Len(sp.sessions)].url

\* C14, as the specification states it: the page a ShoePair is extracted
\* from is the page of the first link of the search-results page that holds
\* the id as the suffix of a path segment, and the search-results page
\* itself when no link does.
C14_ItemPageIffSuffixLink ==
    (res # PyNone /\ res.exc = "") =>
        \E id \in {arg.v[Len(arg.v)].v} :
        \E links \in {Browse(SearchUrl(id)).links} :
        \E page \in {Browse(ExtractionUrl(res))} :
            /\ IF SuffixLinks(links, id) = {}
               THEN ExtractionUrl(res) = SearchUrl(id)
               ELSE ExtractionUrl(res) =
                        links[CHOOSE k \in SuffixLinks(links, id) :
                                  \A x \in SuffixLinks(links, id) : k <= x].v
            /\ res.name = _get_shoe_name(page)
            /\ res.image = _get_shoe_image(page)

\* C13, as the specification states it: when the text typed for the
\* starting file number is no integer (and the tags typed, if used, are a
\* literal), prompt_execution_values does not fail and the execution file
\* it writes has start = 1.
C13_StartDefaultsToOne ==
    (/\ res # PyNone
     /\ ~int(arg.start).ok
     /\ (arg.use_tags = "y" => ast_literal_eval(<<"[">> \o arg.tags \o <<"]">>).ok))
        => /\ res.exc = ""
           /\ outcome = "running"
           /\ arg.ej_name \in DOMAIN fs
           /\ \E file \in {json_loads(fs[arg.ej_name])} :
                  /\ file.ok
                  /\ file.v.t = "dict"
                  /\ HasKey(file.v, K_start)
                  /\ file.v.m[K_start] = PyInt(1)
====
